---- MODULE Spec2Model ----
(***************************************************************************)
(* Model of the salt execution module modules/riak.py: every public        *)
(* function runs a fixed shell command through the salt command executor   *)
(* (__salt__['cmd.run'] / __salt__['cmd.retcode']), splits the captured    *)
(* text into lines and interprets them.  Texts are TLA+ strings and the    *)
(* Python string methods are computed character by character.  The         *)
(* executor is a stub: the texts and the exit code it hands back are       *)
(* inputs, drawn by Init; an action is one call of one function.           *)
(***************************************************************************)
EXTENDS Integers, Sequences, FiniteSets, TLC

(***************************************************************************)
(* Python str methods                                                      *)
(***************************************************************************)

\* s.startswith(p)
StartsWith(s, p) == Len(s) >= Len(p) /\ SubSeq(s, 1, Len(p)) = p

\* s.find(sep, i-1) + 1: index (1-based) of the first occurrence of sep at or
\* after position i, 0 when there is none.
RECURSIVE Find(_, _, _)
Find(s, sep, i) ==
    IF i + Len(sep) - 1 > Len(s) THEN 0
    ELSE IF SubSeq(s, i, i + Len(sep) - 1) = sep THEN i
    ELSE Find(s, sep, i + 1)

\* sep in s
Contains(s, sep) == Find(s, sep, 1) # 0

\* s.split(sep) for a non-empty separator: left to right, non-overlapping,
\* empty pieces kept; never an empty list.
RECURSIVE Split(_, _)
Split(s, sep) ==
    LET i == Find(s, sep, 1) IN
    IF i = 0 THEN <<s>>
    ELSE <<SubSeq(s, 1, i - 1)>> \o Split(SubSeq(s, i + Len(sep), Len(s)), sep)

\* The characters str.split() and str.strip() treat as whitespace, among the
\* characters a string of this module can hold (codes 0 to 255): space, tab,
\* newline, carriage return, form feed, then written raw the vertical tab
\* (code 11), the separators FS, GS, RS, US (codes 28 to 31), NEL (code 133)
\* and the no-break space (code 160).  The Unicode spaces above code 255
\* (U+1680, U+2000 to U+200A, U+2028, U+2029, U+202F, U+205F, U+3000) cannot
\* be written in a string here and occur in no text of the model.
Whitespace ==
    {" ", "\t", "\n", "\r", "\f", "", "", "", "", "", "", " "}

IsSpace(c) == c \in Whitespace

\* s.lstrip()
RECURSIVE LStrip(_)
LStrip(s) ==
    IF Len(s) > 0 /\ IsSpace(SubSeq(s, 1, 1)) THEN LStrip(SubSeq(s, 2, Len(s)))
    ELSE s

\* s.rstrip()
RECURSIVE RStrip(_)
RStrip(s) ==
    IF Len(s) > 0 /\ IsSpace(SubSeq(s, Len(s), Len(s)))
    THEN RStrip(SubSeq(s, 1, Len(s) - 1))
    ELSE s

\* s.strip()
Strip(s) == RStrip(LStrip(s))

\* Length of the leading run of non-whitespace characters of s.
RECURSIVE WordLen(_, _)
WordLen(s, i) ==
    IF i > Len(s) \/ IsSpace(SubSeq(s, i, i)) THEN i - 1
    ELSE WordLen(s, i + 1)

\* s.split(): the maximal runs of non-whitespace characters, in order.
RECURSIVE SplitWs(_)
SplitWs(s) ==
    LET t == LStrip(s) IN
    IF Len(t) = 0 THEN <<>>
    ELSE LET n == WordLen(t, 1) IN
         <<SubSeq(t, 1, n)>> \o SplitWs(SubSeq(t, n + 1, Len(t)))

\* The characters str.splitlines() ends a line at (besides the pair \r\n):
\* newline, carriage return, form feed, then written raw the vertical tab
\* (code 11), FS, GS, RS (codes 28 to 30) and NEL (code 133).  U+2028 and
\* U+2029 cannot be written in a string here.
LineBreaks == {"\n", "\r", "\f", "", "", "", "", ""}

\* Position of the first line boundary character of s at or after i, 0 if none.
RECURSIVE FindBreak(_, _)
FindBreak(s, i) ==
    IF i > Len(s) THEN 0
    ELSE IF SubSeq(s, i, i) \in LineBreaks THEN i
    ELSE FindBreak(s, i + 1)

\* s.splitlines(): lines end at \r\n or at a character of LineBreaks; a
\* boundary at the very end
\* opens no further line, and the empty text has no line at all.
RECURSIVE SplitLines(_)
SplitLines(s) ==
    IF Len(s) = 0 THEN <<>>
    ELSE LET i == FindBreak(s, 1) IN
         IF i = 0 THEN <<s>>
         ELSE LET j == IF i < Len(s) /\ SubSeq(s, i, i + 1) = "\r\n" THEN i + 2 ELSE i + 1 IN
              <<SubSeq(s, 1, i - 1)>> \o SplitLines(SubSeq(s, j, Len(s)))

\* "\n".join(lines)
RECURSIVE Join(_)
Join(lines) ==
    IF Len(lines) = 0 THEN ""
    ELSE IF Len(lines) = 1 THEN lines[1]
    ELSE lines[1] \o "\n" \o Join(Tail(lines))

(***************************************************************************)
(* Python values: the functions return a bool, a str, None, a list or a    *)
(* dict, so a value carries its kind.                                      *)
(***************************************************************************)
PyBool(b) == [kind |-> "bool", val |-> b]
PyStr(s) == [kind |-> "str", val |-> s]
PyInt(n) == [kind |-> "int", val |-> n]
PyList(l) == [kind |-> "list", val |-> l]
PyDict(d) == [kind |-> "dict", val |-> d]
PyNone == [kind |-> "none", val |-> "None"]

\* What a call leaves behind: the command strings handed to the executor, in
\* order; the value returned; the exception that ended the call ("none" when it
\* returned).
Returned(cmds, v) == [calls |-> cmds, result |-> v, fault |-> "none"]
Raised(cmds, exc) == [calls |-> cmds, result |-> PyNone, fault |-> exc]

(***************************************************************************)
(* The functions of riak.py, as functions of their arguments and of what   *)
(* the executor hands back: o is the text cmd.run captures, o2 the text of *)
(* a second cmd.run, rc the exit code cmd.retcode reports.                 *)
(***************************************************************************)

\* Normalize with the two steps in the other order.
Normalize_AttemptingFirst(o) ==
    LET out0 == Split(o, "\n")
        rest == IF StartsWith(out0[1], "Attempting") THEN Tail(out0) ELSE out0
    IN  SelectSeq(rest, LAMBDA line : ~StartsWith(line, "!!!!"))

\* Normalize dropping every line that starts with "Attempting".
Normalize_EveryAttempting(o) ==
    SelectSeq(Split(o, "\n"),
              LAMBDA line : ~StartsWith(line, "!!!!") /\ ~StartsWith(line, "Attempting"))

\* The filter every cluster function and version apply to the captured text:
\* split on newline, drop the lines starting with "!!!!", then drop the first
\* remaining line if it starts with "Attempting".
Normalize(o) ==
    LET msgs == SelectSeq(Split(o, "\n"), LAMBDA line : ~StartsWith(line, "!!!!")) IN
    IF Len(msgs) > 0 /\ StartsWith(msgs[1], "Attempting") THEN Tail(msgs) ELSE msgs

\* ValidNode asking for at least two parts.
ValidNode_AtLeastTwo(node) == Len(Split(node, "@")) >= 2

\* len(node.split("@")) == 2
ValidNode(node) == Len(Split(node, "@")) = 2

\* ReplaceRejected with "or" for "and".
ReplaceRejected_Either(n1, n2) == Len(Split(n1, "@")) # 2 \/ Len(Split(n2, "@")) # 2

\* The test that makes cluster_replace return False before running anything.
ReplaceRejected(n1, n2) == Len(Split(n1, "@")) # 2 /\ Len(Split(n2, "@")) # 2

\* SuccessOrLine comparing the whole line.
SuccessOrLine_Exact(cmds, msgs) ==
    IF Len(msgs) = 0 THEN Raised(cmds, "IndexError")
    ELSE IF msgs[1] = "Success" THEN Returned(cmds, PyBool(TRUE))
    ELSE Returned(cmds, PyStr(msgs[1]))

\* if msgs[0].startswith("Success"): return True / else: return msgs[0]
SuccessOrLine(cmds, msgs) ==
    IF Len(msgs) = 0 THEN Raised(cmds, "IndexError")
    ELSE IF StartsWith(msgs[1], "Success") THEN Returned(cmds, PyBool(TRUE))
    ELSE Returned(cmds, PyStr(msgs[1]))

version_call(o) ==
    LET cmd == "riak version"
        msgs == Normalize(o)
    IN  IF Len(msgs) = 0 THEN Raised(<<cmd>>, "IndexError")
        ELSE Returned(<<cmd>>, PyStr(msgs[1]))

is_up_call(rc) == Returned(<<"riak ping">>, PyBool(rc = 0))

ping_call(rc) ==
    LET up == is_up_call(rc) IN
    Returned(up.calls, PyStr(IF up.result = PyBool(TRUE) THEN "pong" ELSE ""))

start_call(rc) == Returned(<<"riak start">>, PyBool(rc = 0))

stop_call(rc) == Returned(<<"riak stop">>, PyBool(rc = 0))

restart_call(rc) == Returned(<<"riak restart">>, PyBool(rc = 0))

cluster_join_call(node, o) ==
    IF ~ValidNode(node) THEN Returned(<<>>, PyBool(FALSE))
    ELSE LET cmd == "riak-admin cluster join " \o node IN
         SuccessOrLine(<<cmd>>, Normalize(o))

\* LeaveCommand with the two subcommands swapped.
LeaveCommand_Swapped(node, force) ==
    LET cmd == IF force = FALSE THEN "riak-admin cluster force-remove"
               ELSE "riak-admin cluster leave"
    IN  IF node # PyNone THEN cmd \o " " \o node.val ELSE cmd

\* The command string cluster_leave builds; node is a Python value, None when
\* the caller gave no node.
LeaveCommand(node, force) ==
    LET cmd == IF force = FALSE THEN "riak-admin cluster leave"
               ELSE "riak-admin cluster force-remove"
    IN  IF node # PyNone THEN cmd \o " " \o node.val ELSE cmd

cluster_leave_call(node, force, o) ==
    IF node # PyNone /\ ~ValidNode(node.val) THEN Returned(<<>>, PyBool(FALSE))
    ELSE SuccessOrLine(<<LeaveCommand(node, force)>>, Normalize(o))

cluster_replace_call(n1, n2, force, o) ==
    IF ReplaceRejected(n1, n2) THEN Returned(<<>>, PyBool(FALSE))
    ELSE LET cmd == "riak-admin cluster replace " \o n1 \o " " \o n2 IN
         SuccessOrLine(<<cmd>>, Normalize(o))

cluster_plan_call(o) ==
    LET cmd == "riak-admin cluster plan"
        msgs == Normalize(o)
    IN  IF Len(msgs) = 0 THEN Raised(<<cmd>>, "IndexError")
        ELSE IF msgs[1] = "There are no staged changes" THEN Returned(<<cmd>>, PyNone)
        ELSE Returned(<<cmd>>, PyList(msgs))

cluster_clear_call(o) ==
    LET cmd == "riak-admin cluster clear"
        msgs == Normalize(o)
    IN  IF Len(msgs) = 0 THEN Raised(<<cmd>>, "IndexError")
        ELSE IF msgs[1] = "Cleared staged cluster changes"
             THEN Returned(<<cmd>>, PyBool(TRUE))
        ELSE Returned(<<cmd>>, PyStr(msgs[1]))

\* MustVerify comparing the whole line.
MustVerify_Exact(line) == line = "You must verify the plan"

\* The test that sends cluster_commit on to cluster_plan.
MustVerify(line) == StartsWith(line, "You must verify the plan")

cluster_commit_call(o, o2) ==
    LET cmd == "riak-admin cluster commit"
        msgs == Normalize(o)
    IN  IF Len(msgs) = 0 THEN Raised(<<cmd>>, "IndexError")
        ELSE IF MustVerify(msgs[1])
             THEN LET plan == cluster_plan_call(o2) IN
                  [calls |-> <<cmd>> \o plan.calls,
                   result |-> plan.result, fault |-> plan.fault]
        ELSE Returned(<<cmd>>, PyStr(msgs[1]))

ringready_call(o) ==
    LET out == Split(o, "\n") IN
    Returned(<<"riak-admin ringready">>,
             PyBool(Len(out) > 0 /\ StartsWith(out[1], "TRUE")))

ring_status_call(o) ==
    LET out == Tail(Split(o, "\n")) IN
    Returned(<<"riak-admin ring-status">>,
             PyList(SelectSeq(out, LAMBDA line :
                 Len(line) > 0 /\ SubSeq(line, 1, 1) # "=" /\ SubSeq(line, 1, 1) # " ")))

transfers_call(o) ==
    LET out == Split(o, "\n") IN
    IF out[1] = "No transfers active"
    THEN Returned(<<"riak-admin transfers">>, PyStr(out[1]))
    ELSE Returned(<<"riak-admin transfers">>, PyList(out))

diag_call(o) ==
    LET out == Split(o, "\n") IN
    IF Len(out) = 1 /\ Len(out[1]) = 0
    THEN Returned(<<"riak-admin diag">>, PyStr("Nothing to report"))
    ELSE Returned(<<"riak-admin diag">>, PyList(out))

\* StatusItems taking every line with at least two parts.
RECURSIVE StatusItems_AtLeastTwo(_)
StatusItems_AtLeastTwo(lines) ==
    IF Len(lines) = 0 THEN <<>>
    ELSE LET parts == Split(lines[1], " : ") IN
         (IF Len(parts) >= 2 THEN <<[key |-> parts[1], value |-> parts[2]]>> ELSE <<>>)
         \o StatusItems_AtLeastTwo(Tail(lines))

\* The loop of status: one {parts[0]: parts[1]} for each line that splits on
\* " : " into two parts.  A one-key dict is the pair [key, value].
RECURSIVE StatusItems(_)
StatusItems(lines) ==
    IF Len(lines) = 0 THEN <<>>
    ELSE LET parts == Split(lines[1], " : ") IN
         (IF Len(parts) = 2 THEN <<[key |-> parts[1], value |-> parts[2]]>> ELSE <<>>)
         \o StatusItems(Tail(lines))

status_call(o) ==
    Returned(<<"riak-admin status">>, PyList(StatusItems(Split(o, "\n"))))

\* d[k] = v on a dict, a function from its keys.
Put(d, k, v) == [x \in (DOMAIN d) \cup {k} |-> IF x = k THEN v ELSE d[x]]

EmptyDict == [x \in {} |-> PyNone]

\* ret['summary'] as member_status creates it.
InitialSummary ==
    [x \in {"Valid", "Leaving", "Exiting", "Joining", "Down"} |-> PyInt(0)]

\* line.startswith(('=', '-', 'Status'))
SkippedLine(line) ==
    StartsWith(line, "=") \/ StartsWith(line, "-") \/ StartsWith(line, "Status")

\* The inner loop of member_status over the "/"-separated items of a summary
\* line: key, val = item.split(':') raises ValueError unless the item has
\* exactly one ":".
RECURSIVE SummaryItems(_, _)
SummaryItems(comps, acc) ==
    IF Len(comps) = 0 \/ acc.fault # "none" THEN acc
    ELSE LET kv == Split(comps[1], ":") IN
         IF Len(kv) # 2 THEN [acc EXCEPT !.fault = "ValueError"]
         ELSE SummaryItems(Tail(comps),
                  [acc EXCEPT !.summary = Put(@, Strip(kv[1]), PyStr(Strip(kv[2])))])

\* One pass of the loop body of member_status over one line.
MemberLine(line, acc) ==
    IF SkippedLine(line) THEN acc
    ELSE LET a == IF Contains(line, "/") THEN SummaryItems(Split(line, "/"), acc)
                  ELSE acc
             vals == SplitWs(line)
         IN  IF a.fault # "none" THEN a
             ELSE IF Len(vals) = 4
                  THEN [a EXCEPT !.membership =
                           Put(@, vals[4], [Status |-> vals[1], Ring |-> vals[2],
                                            Pending |-> vals[3]])]
             ELSE a

RECURSIVE MemberLines(_, _)
MemberLines(lines, acc) ==
    IF Len(lines) = 0 \/ acc.fault # "none" THEN acc
    ELSE MemberLines(Tail(lines), MemberLine(lines[1], acc))

member_status_call(o) ==
    LET cmd == "riak-admin member-status"
        ret == MemberLines(SplitLines(o),
                   [membership |-> EmptyDict, summary |-> InitialSummary,
                    fault |-> "none"])
    IN  IF ret.fault # "none" THEN Raised(<<cmd>>, ret.fault)
        ELSE Returned(<<cmd>>,
                 PyDict([membership |-> ret.membership, summary |-> ret.summary]))

(***************************************************************************)
(* State.  The module keeps none of its own between calls; the state is    *)
(* the arguments and the executor's canned answers (fixed by Init) and     *)
(* the record of the latest call.                                          *)
(***************************************************************************)
VARIABLES
    node1,      \* the node argument (node of join and leave, node1 of replace)
    node2,      \* node2 of cluster_replace
    force,      \* the force argument
    out,        \* the text the first cmd.run of a call captures
    out2,       \* the text a second cmd.run of the same call captures
    retcode,    \* the exit code cmd.retcode reports
    op,         \* the function called last, "none" before any call
    args,       \* the arguments it was called with, as Python values
    calls,      \* the command strings it handed to the executor, in order
    result,     \* the Python value it returned
    fault       \* the exception that ended it, "none" if it returned

inputs == <<node1, node2, force, out, out2, retcode>>
vars == <<node1, node2, force, out, out2, retcode, op, args, calls, result, fault>>

\* The texts of 1..n lines over the alphabet L, joined with newlines.  The
\* empty line is in every alphabet, so the empty text and texts ending in a
\* newline are among them.
Texts(L, n) == {Join(ls) : ls \in UNION {[1..k -> L] : k \in 1..n}}

MaxLines == 3
MaxStatusLines == 3
MaxMemberLines == 3

NodeNames == {"riak@10.0.0.1", "badnode", "a@b@c", "@"}
Node2Names == {"riak@10.0.0.2", "nohost"}
ExitCodes == {0, 1}

ClusterLines ==
    {"!!!! crash", "Attempting to restart", "Success: staged join",
     "Failed: not reachable", ""}

FirstLines ==
    {"!!!! crash", "Attempting to restart",
     "You must verify the plan first",
     "There are no staged changes", ""}

PlanTexts ==
    {"!!!! crash\nAttempting to restart\nThere are no staged changes\n",
     "Attempting to restart\nAction  Nodes\njoin    'riak@10.0.0.2'",
     "!!!! crash\nAttempting to restart"}

StatusLines ==
    {"vnode_gets : 0", "1-minute stats for 'riak@10.0.0.1'", "a : b : c",
     "ring_members : ['riak@10.0.0.1']", " : ", ""}

MemberLines4 ==
    {"==== Membership ====", "Status Ring Pending Node", "----",
     "valid 25.0% -- 'riak@10.0.0.1'", "leaving 50.0% 25.0% 'riak@10.0.0.1'",
     "Valid:1 / Leaving:0 / Exiting:0 / Joining:0 / Down:0",
     "Valid:1 / Down:0 x", "valid 5% -- r/k",
     "valid75.0% --'riak@10.0.0.2'", "down 0% -- n1down 0% -- n2", ""}

AllTexts ==
    {"", "1.4.2", "!!!! crash", "Attempting to restart\nSuccess: staged join",
     "!!!! crash\nAttempting to restart",
     "You must verify the plan first",
     "There are no staged changes", "Cleared staged cluster changes",
     "TRUE All nodes agree on the ring", "No transfers active",
     "==== Claimant ====\nClaimant: 'riak@10.0.0.1'\n  none\n",
     "vnode_gets : 0\nvnode_puts : 0",
     "Status Ring Pending Node\nvalid 100.0% -- 'riak@10.0.0.1'\nValid:1 / Down:0"}

InitWith(N1, N2, F, O, O2, RC) ==
    /\ node1 \in N1
    /\ node2 \in N2
    /\ force \in F
    /\ out \in O
    /\ out2 \in O2
    /\ retcode \in RC
    /\ op = "none"
    /\ args = <<>>
    /\ calls = <<>>
    /\ result = PyNone
    /\ fault = "none"

\* A call of the function f with the arguments a that went as r records.
Done(f, a, r) ==
    /\ op' = f
    /\ args' = a
    /\ calls' = r.calls
    /\ result' = r.result
    /\ fault' = r.fault
    /\ UNCHANGED inputs

version == Done("version", <<>>, version_call(out))

ping == Done("ping", <<>>, ping_call(retcode))

is_up == Done("is_up", <<>>, is_up_call(retcode))

start == Done("start", <<>>, start_call(retcode))

stop == Done("stop", <<>>, stop_call(retcode))

restart == Done("restart", <<>>, restart_call(retcode))

cluster_join == Done("cluster_join", <<PyStr(node1)>>, cluster_join_call(node1, out))

cluster_leave ==
    \E node \in {PyNone, PyStr(node1)} :
        Done("cluster_leave", <<node, PyBool(force)>>,
             cluster_leave_call(node, force, out))

cluster_replace ==
    Done("cluster_replace", <<PyStr(node1), PyStr(node2), PyBool(force)>>,
         cluster_replace_call(node1, node2, force, out))

cluster_plan == Done("cluster_plan", <<>>, cluster_plan_call(out))

cluster_clear == Done("cluster_clear", <<>>, cluster_clear_call(out))

cluster_commit == Done("cluster_commit", <<>>, cluster_commit_call(out, out2))

ringready == Done("ringready", <<>>, ringready_call(out))

ring_status == Done("ring_status", <<>>, ring_status_call(out))

member_status == Done("member_status", <<>>, member_status_call(out))

transfers == Done("transfers", <<>>, transfers_call(out))

diag == Done("diag", <<>>, diag_call(out))

status == Done("status", <<>>, status_call(out))

\* Every function, on representative texts.
Init ==
    InitWith(NodeNames, Node2Names, BOOLEAN, AllTexts,
             {"There are no staged changes", "!!!! crash"}, ExitCodes)

Next ==
    \/ version \/ ping \/ is_up \/ start \/ stop \/ restart
    \/ cluster_join \/ cluster_leave \/ cluster_replace
    \/ cluster_plan \/ cluster_clear \/ cluster_commit
    \/ ringready \/ ring_status \/ member_status
    \/ transfers \/ diag \/ status

Spec == Init /\ [][Next]_vars

\* The three functions that take nodes, on every text of up to MaxLines lines.
InitCluster ==
    InitWith(NodeNames, Node2Names, BOOLEAN, Texts(ClusterLines, MaxLines), {""}, {0})

NextCluster == cluster_join \/ cluster_leave \/ cluster_replace

SpecCluster == InitCluster /\ [][NextCluster]_vars

\* The seven functions that read the first normalized line.
InitFirstLine ==
    InitWith({"riak@10.0.0.1", "badnode"}, {"riak@10.0.0.2"}, {FALSE},
             Texts(FirstLines, MaxLines), PlanTexts, {0})

NextFirstLine ==
    \/ version \/ cluster_join \/ cluster_leave \/ cluster_replace
    \/ cluster_plan \/ cluster_clear \/ cluster_commit

SpecFirstLine == InitFirstLine /\ [][NextFirstLine]_vars

\* status on every text of up to MaxStatusLines lines.
InitStatus ==
    InitWith({"riak@10.0.0.1"}, {"riak@10.0.0.2"}, {FALSE},
             Texts(StatusLines, MaxStatusLines), {""}, {0})

NextStatus == status

SpecStatus == InitStatus /\ [][NextStatus]_vars

\* member_status on every text of up to MaxMemberLines lines.
InitMember ==
    InitWith({"riak@10.0.0.1"}, {"riak@10.0.0.2"}, {FALSE},
             Texts(MemberLines4, MaxMemberLines), {""}, {0})

NextMember == member_status

SpecMember == InitMember /\ [][NextMember]_vars

(***************************************************************************)
(* The properties.  They are stated from the arguments and the captured    *)
(* texts alone, with their own reading of the texts: characters counted    *)
(* and lines cut at the newline positions.                                 *)
(***************************************************************************)

\* The number of "@" characters of a node name; a name splits on "@" into
\* exactly 2 parts when it has exactly one.
AtCount(s) == Cardinality({i \in 1..Len(s) : SubSeq(s, i, i) = "@"})

TwoParts(s) == AtCount(s) = 1

NewlineAt(o) == {i \in 1..Len(o) : SubSeq(o, i, i) = "\n"}

Cuts(o) == {0} \cup NewlineAt(o) \cup {Len(o) + 1}

\* The k-th smallest element of the set of numbers S.
Nth(S, k) == CHOOSE b \in S : Cardinality({c \in S : c < b}) = k - 1

\* The raw lines of a text: what lies between consecutive newlines.
RawLines(o) ==
    LET cuts == Cuts(o) IN
    [k \in 1..(Cardinality(cuts) - 1) |->
        SubSeq(o, Nth(cuts, k) + 1, Nth(cuts, k + 1) - 1)]

HasPrefix(line, p) == Len(line) >= Len(p) /\ SubSeq(line, 1, Len(p)) = p

RECURSIVE DropBanners(_)
DropBanners(lines) ==
    IF lines = <<>> THEN <<>>
    ELSE IF HasPrefix(Head(lines), "!!!!") THEN DropBanners(Tail(lines))
    ELSE <<Head(lines)>> \o DropBanners(Tail(lines))

\* NormalizedLines of the specification.
NormalizedLines(o) ==
    LET kept == DropBanners(RawLines(o)) IN
    IF kept # <<>> /\ HasPrefix(kept[1], "Attempting") THEN Tail(kept) ELSE kept

\* No line starts with "!!!!" and the first line does not start with
\* "Attempting".
NoNoise(o) ==
    LET raw == RawLines(o) IN
    /\ \A k \in 1..Len(raw) : ~HasPrefix(raw[k], "!!!!")
    /\ ~HasPrefix(raw[1], "Attempting")

\* Every raw line starts with "!!!!", or the lines that do not are a single
\* line starting with "Attempting".
OnlyNoise(o) ==
    LET raw == RawLines(o)
        others == {k \in 1..Len(raw) : ~HasPrefix(raw[k], "!!!!")}
    IN  \/ others = {}
        \/ /\ Cardinality(others) = 1
           /\ \A k \in others : HasPrefix(raw[k], "Attempting")

NodeOps == {"cluster_join", "cluster_leave", "cluster_replace"}

\* The node arguments of the latest call, when it was a call of a node function.
GivenNodes ==
    IF op = "cluster_replace" THEN {args[1].val, args[2].val}
    ELSE IF op \in {"cluster_join", "cluster_leave"} /\ args[1] # PyNone
         THEN {args[1].val}
    ELSE {}

\* C1: cluster_join(node) and cluster_leave(node) with a node that does not
\* split on "@" into exactly 2 parts return False and hand no command to the
\* executor.
C1_InvalidNodeRejected ==
    (op \in {"cluster_join", "cluster_leave"} /\ \E n \in GivenNodes : ~TwoParts(n))
        => (result = PyBool(FALSE) /\ calls = <<>> /\ fault = "none")

C1_Witness ==
    /\ op = "cluster_leave"
    /\ args[1] = PyStr("a@b@c")
    /\ result = PyBool(FALSE)
    /\ calls = <<>>

\* C2: cluster_replace runs its command only when both nodes split on "@" into
\* exactly 2 parts, and returns False without running anything when either
\* does not.
C2_ReplaceChecksBothNodes ==
    op = "cluster_replace" =>
        /\ (calls # <<>> => \A n \in GivenNodes : TwoParts(n))
        /\ ((\E n \in GivenNodes : ~TwoParts(n))
                => (result = PyBool(FALSE) /\ calls = <<>>))

\* C3 as claimed: every call hands exactly one command to the executor.
C3_ExactlyOneCommand == op # "none" => Len(calls) = 1

\* The number of commands a call runs: none when the node check rejects, two
\* when cluster_commit goes on to cluster_plan, one otherwise.
ExpectedCommands ==
    IF op \in {"cluster_join", "cluster_leave"} /\ \E n \in GivenNodes : ~TwoParts(n)
    THEN 0
    ELSE IF op = "cluster_replace" /\ \A n \in GivenNodes : ~TwoParts(n) THEN 0
    ELSE IF /\ op = "cluster_commit"
            /\ NormalizedLines(out) # <<>>
            /\ HasPrefix(NormalizedLines(out)[1], "You must verify the plan")
         THEN 2
    ELSE 1

\* C3, amended: every call hands exactly one command to the executor, except
\* that cluster_join and cluster_leave hand none when the given node fails the
\* "@" check, cluster_replace hands none when both nodes fail it, and
\* cluster_commit hands a second one when the first normalized line of the
\* commit output starts with "You must verify the plan".
C3_CommandCount == op # "none" => Len(calls) = ExpectedCommands

C3_Witness ==
    /\ op = "cluster_commit"
    /\ calls = <<"riak-admin cluster commit", "riak-admin cluster plan">>

\* What the node functions return on the normalized lines of a text that has
\* some: True when the first starts with "Success", that line otherwise.
SuccessOrFirst(lines) ==
    IF HasPrefix(lines[1], "Success") THEN PyBool(TRUE) ELSE PyStr(lines[1])

\* C4 as claimed: with valid nodes and on every command output, cluster_join,
\* cluster_leave and cluster_replace return, True when the first normalized
\* line starts with "Success" and that line itself otherwise.
C4_AlwaysReturnsSuccessOrLine ==
    LET lines == NormalizedLines(out) IN
    (op \in NodeOps /\ \A n \in GivenNodes : TwoParts(n))
        => /\ fault = "none"
           /\ lines # <<>> => result = SuccessOrFirst(lines)

\* C4, amended: with valid nodes, cluster_join, cluster_leave and
\* cluster_replace run their one command and, on an output that has a first
\* normalized line, return True when it starts with "Success" and that line
\* itself otherwise; on an output whose normalized lines are empty they end
\* in an unhandled IndexError and return nothing.
C4_SuccessOrFirstLine ==
    LET lines == NormalizedLines(out) IN
    (op \in NodeOps /\ \A n \in GivenNodes : TwoParts(n))
        => /\ Len(calls) = 1
           /\ IF lines = <<>> THEN fault = "IndexError"
              ELSE fault = "none" /\ result = SuccessOrFirst(lines)

C4_Witness ==
    /\ op = "cluster_join"
    /\ args = <<PyStr("riak@10.0.0.1")>>
    /\ out = "Attempting to restart\nSuccess: staged join"
    /\ result = PyBool(TRUE)

\* The positions where " : " occurs in a line.
SeparatorAt(line) ==
    {i \in 1..(Len(line) - 2) : SubSeq(line, i, i + 2) = " : "}

\* C5 as claimed: the list status returns has one element for each raw line
\* containing " : " and none for any other line.
C5_OnePerSeparatorLine ==
    op = "status" =>
        Len(result.val) =
            Cardinality({k \in 1..Len(RawLines(out)) : SeparatorAt(RawLines(out)[k]) # {}})

\* A line splits on " : " into exactly two parts when the separator occurs in
\* it and does not occur again after its first occurrence.
FirstSeparator(line) ==
    CHOOSE i \in SeparatorAt(line) : \A j \in SeparatorAt(line) : i <= j

SplitsInTwo(line) ==
    /\ SeparatorAt(line) # {}
    /\ \A j \in SeparatorAt(line) : j < FirstSeparator(line) + 3

RECURSIVE ExpectedStatus(_)
ExpectedStatus(lines) ==
    IF lines = <<>> THEN <<>>
    ELSE (IF SplitsInTwo(Head(lines))
          THEN <<[key |-> SubSeq(Head(lines), 1, FirstSeparator(Head(lines)) - 1),
                  value |-> SubSeq(Head(lines), FirstSeparator(Head(lines)) + 3,
                                   Len(Head(lines)))]>>
          ELSE <<>>)
         \o ExpectedStatus(Tail(lines))

\* C5, amended: the list status returns has, in line order, one {key: value}
\* for each raw line that splits on " : " into exactly two parts, key the text
\* before the separator and value the text after it, and no element for any
\* other line, a line with a second separator included.
C5_OnePerTwoPartLine ==
    op = "status" => (fault = "none" /\ result = PyList(ExpectedStatus(RawLines(out))))

C5_Witness ==
    /\ op = "status"
    /\ out = "vnode_gets : 0\na : b : c\n"
    /\ result = PyList(<<[key |-> "vnode_gets", value |-> "0"]>>)

\* C6: the lines the functions work on are the raw lines without those that
\* start with "!!!!" and then without the first remaining line if it starts
\* with "Attempting", in their order; they are the raw lines when the text has
\* no such noise.  cluster_plan returns them all and version the first.
C6_NormalizedLines ==
    LET lines == NormalizedLines(out) IN
    /\ (/\ op = "cluster_plan"
        /\ lines # <<>>
        /\ lines[1] # "There are no staged changes")
           => /\ result = PyList(lines)
              /\ NoNoise(out) => result = PyList(RawLines(out))
    /\ (op = "version" /\ lines # <<>>)
           => /\ result = PyStr(lines[1])
              /\ NoNoise(out) => result = PyStr(RawLines(out)[1])

C6_Witness ==
    /\ op = "cluster_plan"
    /\ out = "!!!! crash\nAttempting to restart\nYou must verify the plan first"
    /\ result = PyList(<<"You must verify the plan first">>)

\* The rows of a member-status text as the claim reads them: the lines that
\* are not skipped, are not the summary line, and have exactly 4 tokens.
RECURSIVE ExpectedMembership(_, _)
ExpectedMembership(lines, acc) ==
    IF lines = <<>> THEN acc
    ELSE LET line == Head(lines)
             vals == SplitWs(line)
         IN  ExpectedMembership(Tail(lines),
                 IF /\ ~HasPrefix(line, "=")
                    /\ ~HasPrefix(line, "-")
                    /\ ~HasPrefix(line, "Status")
                    /\ ~Contains(line, "/")
                    /\ Len(vals) = 4
                 THEN Put(acc, vals[4], [Status |-> vals[1], Ring |-> vals[2],
                                         Pending |-> vals[3]])
                 ELSE acc)

\* C7: the membership mapping of member_status has an entry for the node of
\* each 4-token row, holding the row's Status, Ring and Pending (the last row
\* of a node wins), and a summary line, one containing "/", adds no entry.
C7_MembershipFromRowsOnly ==
    (op = "member_status" /\ fault = "none")
        => result.val.membership = ExpectedMembership(SplitLines(out), EmptyDict)

\* What cluster_plan returns on the normalized lines of the plan text: None
\* when the first is "There are no staged changes", the whole list otherwise.
PlanResult(plan) ==
    IF plan # <<>> /\ plan[1] = "There are no staged changes" THEN PyNone
    ELSE PyList(plan)

\* C8 as claimed: cluster_commit runs the commit command; when the first
\* normalized line of its output starts with "You must verify the plan" it
\* then runs the plan command and returns what cluster_plan returns for the
\* second output (None or the full list of normalized lines); in every other
\* case it returns the first normalized line and runs nothing more.
C8_CommitAlwaysReturns ==
    LET lines == NormalizedLines(out)
        plan == NormalizedLines(out2)
    IN  op = "cluster_commit" =>
            IF lines # <<>> /\ HasPrefix(lines[1], "You must verify the plan")
            THEN /\ calls = <<"riak-admin cluster commit", "riak-admin cluster plan">>
                 /\ fault = "none"
                 /\ result = PlanResult(plan)
            ELSE /\ calls = <<"riak-admin cluster commit">>
                 /\ fault = "none"
                 /\ lines # <<>> => result = PyStr(lines[1])

\* C8, amended: cluster_commit first runs the commit command.  When the
\* normalized lines of its output are empty it ends in an unhandled
\* IndexError after that one command.  When the first normalized line starts
\* with "You must verify the plan" it then runs the plan command and ends as
\* cluster_plan does on the second output: IndexError when its normalized
\* lines are empty, None when the first is "There are no staged changes", the
\* full list of normalized lines otherwise.  In every other case it returns
\* the first normalized line of the commit output and runs nothing more.
C8_CommitThenPlan ==
    LET lines == NormalizedLines(out)
        plan == NormalizedLines(out2)
    IN  op = "cluster_commit" =>
            IF lines = <<>>
            THEN calls = <<"riak-admin cluster commit">> /\ fault = "IndexError"
            ELSE IF HasPrefix(lines[1], "You must verify the plan")
            THEN /\ calls = <<"riak-admin cluster commit", "riak-admin cluster plan">>
                 /\ IF plan = <<>> THEN fault = "IndexError"
                    ELSE fault = "none" /\ result = PlanResult(plan)
            ELSE /\ calls = <<"riak-admin cluster commit">>
                 /\ fault = "none"
                 /\ result = PyStr(lines[1])

C8_Witness ==
    /\ op = "cluster_commit"
    /\ out = "!!!! crash\nYou must verify the plan first\n"
    /\ out2 = "Attempting to restart\nAction  Nodes\njoin    'riak@10.0.0.2'"
    /\ calls = <<"riak-admin cluster commit", "riak-admin cluster plan">>
    /\ result = PyList(<<"Action  Nodes", "join    'riak@10.0.0.2'">>)

\* C9: the one command cluster_leave runs, with the node absent or valid, is
\* "riak-admin cluster leave" when force is false and "riak-admin cluster
\* force-remove" when it is true, followed by a space and the node exactly
\* when a node is given.
C9_LeaveCommand ==
    op = "cluster_leave" =>
        /\ (\A n \in GivenNodes : TwoParts(n)) => Len(calls) = 1
        /\ \A k \in 1..Len(calls) :
              calls[k] = (IF args[2] = PyBool(TRUE)
                          THEN "riak-admin cluster force-remove"
                          ELSE "riak-admin cluster leave")
                         \o (IF args[1] = PyNone THEN "" ELSE " " \o args[1].val)

C9_Witness ==
    /\ op = "cluster_leave"
    /\ args = <<PyStr("riak@10.0.0.1"), PyBool(TRUE)>>
    /\ calls = <<"riak-admin cluster force-remove riak@10.0.0.1">>

FirstLineOps ==
    {"version", "cluster_join", "cluster_leave", "cluster_replace",
     "cluster_plan", "cluster_clear", "cluster_commit"}

\* C10: a function that reads the first normalized line ends in an unhandled
\* fault exactly when the normalized lines of a text it reads are empty, that
\* is when the text is only noise; cluster_commit reads the plan text as well
\* when it goes on to cluster_plan.  The empty text normalizes to one empty
\* line: no fault, and version returns the empty string.
C10_FaultIffNoLines ==
    LET lines == NormalizedLines(out) IN
    /\ (op \in FirstLineOps /\ calls # <<>>) =>
          (fault # "none" <=>
              \/ OnlyNoise(out)
              \/ /\ op = "cluster_commit"
                 /\ lines # <<>>
                 /\ HasPrefix(lines[1], "You must verify the plan")
                 /\ OnlyNoise(out2))
    /\ (op \in FirstLineOps /\ calls = <<>>) => fault = "none"
    /\ OnlyNoise(out) <=> lines = <<>>
    /\ (op = "version" /\ out = "") => (fault = "none" /\ result = PyStr(""))

C10_Witness ==
    /\ op = "cluster_clear"
    /\ out = "!!!! crash\nAttempting to restart\n!!!! crash"
    /\ fault = "IndexError"

====
